---- MODULE Spec2Model ----
(***************************************************************************)
(* A model of the document-to-topic pipeline of documentexplore:           *)
(* text_chunking.py, embedding_generation.py, clustering.py,               *)
(* topic_naming.py, generate_json.py, the drivers main.py and app.py, and  *)
(* the overlap computation of app.py.                                      *)
(*                                                                         *)
(* The module holds several specifications over one set of variables.      *)
(* Each specification drives one part of the program and leaves the other  *)
(* parts' variables at their idle values:                                  *)
(*   SpecChunker   chunk_all_texts on every bounded input text             *)
(*   SpecClusterer perform_clustering on every bounded list of records     *)
(*   SpecNamer     topic_naming.py and generate_json.py on every bounded   *)
(*                 clustered list, and single calls of name_cluster        *)
(*   SpecOverlap   compute_topic_overlap on bounded items and topics       *)
(*   SpecPipeline  whole runs of main.py and sessions of app.py            *)
(*   SpecLayout    compute_topic_positions on bounded items and topics     *)
(*   SpecSelector  determine_optimal_clusters on bounded chunk counts,     *)
(*                 configured bounds and silhouette scores                 *)
(*   SpecVectorizer sequences of generate_embeddings and get_embedding     *)
(*                 calls within one process                                *)
(***************************************************************************)
EXTENDS Integers, Sequences, FiniteSets, TLC

VARIABLES
    pc,          \* position of the part of the program being driven
    \* ---- text_chunking.py
    full_text,   \* content of outputs/all_texts.txt, a sequence of symbols
    max_chars,   \* the max_chars argument of chunk_all_texts
    docs,        \* chunk_all_texts: the list full_text.split(marker)
    all_chunks,  \* chunk_all_texts: the list of chunks, before stripping
    chunks_txt,  \* content of outputs/chunks.txt, a sequence of symbols
    \* ---- clustering.py: one call of perform_clustering
    embeddings_data,   \* the list of records the call is given
    num_clusters_arg,  \* the num_clusters argument of the call
    num_clusters,      \* the local num_clusters when the call ends
    clusters,          \* the labels the call returns
    raised,            \* the exception the call ends with, "" for none
    kmeans_calls,      \* n_clusters of every KMeans fit the call attempted
    log,               \* the adjustments the call printed
    \* ---- topic_naming.py, generate_json.py and the files of outputs/
    MAX_KEYWORDS,        \* config.MAX_KEYWORDS
    files,               \* the names of the files that exist in outputs/
    clustered_json,      \* content of clustered_embeddings.json: records
    cluster_names_json,  \* content of cluster_names.json: <<key, name>> pairs
    docexplore_json,     \* content of docexplore.json: the artifact
    exit_code,           \* exit status of the stage script that ran last
    text_samples,        \* one call of name_cluster: its texts,
    cluster_id,          \* its cluster id,
    title,               \* and what it returned
    \* ---- app.py: one call of compute_topic_overlap
    clustered_data,      \* the items the call is given
    topics_dict,         \* the topics it is given: <<cluster id, name>> pairs
    overlaps,            \* the list it returns
    \* ---- main.py, app.py: runs of the pipeline
    driver,              \* "main.py" or "app.py"
    reports,             \* the documents of the reports folder
    all_texts,           \* outputs/all_texts.txt
    chunks,              \* outputs/chunks.txt
    embeddings_json,     \* outputs/embeddings.json
    results,             \* the subprocess results of the run, in order
    doc_uploaded,        \* st.session_state.doc_uploaded
    page_data,           \* docexplore_data of the analysis page
    runs,                \* the runs started so far
    artifact_run,        \* the run outputs/docexplore.json was written by
    \* ---- app.py: one call of compute_topic_positions
    positions,           \* compute_topic_positions: the rows of positions
    topic_names,         \* and the list topic_names it returns
    returned_none,       \* did it return (None, None)
    \* ---- clustering.py: one call of determine_optimal_clusters
    doc_size,            \* determine_optimal_clusters: X.shape[0]
    min_clusters_arg,    \* its min_clusters argument
    max_clusters_arg,    \* its max_clusters argument
    silhouette,          \* what silhouette_score gives each candidate
    candidate_list,      \* its list cluster_range
    score_pairs,         \* its list silhouette_scores, of pairs <<k, score>>
    best_n_clusters,     \* the number it returns
    \* ---- embedding_generation.py: the calls made within one process
    MAX_FEATURES,        \* config.MAX_FEATURES
    vectorizer_globals,  \* the module globals _vectorizer and _fitted
    globals_before,      \* the globals before the call that ran last
    run_chunks,          \* the chunks, or the text, of the call that ran last
    embeddings_out,      \* the vectors that call produced, in order
    embedding_raised     \* the exception it ended with, "" for none

chunkerVars == <<full_text, max_chars, docs, all_chunks, chunks_txt>>
clustererVars == <<embeddings_data, num_clusters_arg, num_clusters, clusters,
                   raised, kmeans_calls, log>>
namerVars == <<MAX_KEYWORDS, files, clustered_json, cluster_names_json,
               docexplore_json, exit_code, text_samples, cluster_id, title>>
overlapVars == <<clustered_data, topics_dict, overlaps>>
pipelineVars == <<driver, reports, all_texts, chunks, embeddings_json, results,
                  doc_uploaded, page_data, runs, artifact_run>>
layoutVars == <<positions, topic_names, returned_none>>
selectorVars == <<doc_size, min_clusters_arg, max_clusters_arg, silhouette,
                  candidate_list, score_pairs, best_n_clusters>>
vectorizerVars == <<MAX_FEATURES, vectorizer_globals, globals_before, run_chunks, embeddings_out, embedding_raised>>
vars == <<pc, chunkerVars, clustererVars, namerVars, overlapVars, pipelineVars,
         layoutVars, selectorVars,
         vectorizerVars>>

(***************************************************************************)
(* Bounds of the model.                                                    *)
(***************************************************************************)
MaxTextLen == 5
MaxDocs == 2
MaxChunkSize == 3
\* perform_clustering: records given, records without a usable embedding
\* among them, the largest num_clusters requested
MaxRecords == 9
MaxSkipped == 1
MaxRequested == 10
\* up to this many vectors the partitioner's labels are arbitrary; above, they
\* are drawn from the rotations j -> (j + s) % k and the constant 0
MaxFreeLabels == 2
\* the stage scripts run on a clustered_embeddings.json of this many records
MaxClustered == 3
\* compute_topic_overlap: the distinct significant words of the two topics of a
\* call, and the items of a call on three topics
MaxWords == 29
MaxItems == 3
\* the pipeline: the documents of the reports folder, the chunks of one
\* document, the uploads of one session of app.py
MaxReports == 2
MaxDocChunks == 3
MaxUploads == 2
\* determine_optimal_clusters: the chunk counts 0..MaxSmallDocs and the tens
\* up to 10 * MaxTens, and the leading candidates whose score is free
MaxSmallDocs == 12
MaxTens == 26
MaxMarked == 2
\* embedding_generation.py: the chunks of one generate_embeddings run
MaxRunChunks == 2

(***************************************************************************)
(* Text.  A text is a sequence of symbols.  A symbol is one character,     *)
(* except that each of the two literal markers of the program is one       *)
(* symbol: the model's texts never hold a part of a marker.                *)
(***************************************************************************)
DocMarkerCore == "=== NEW DOCUMENT ==="
ChunkEndCore == "---CHUNK END---"
Letters == {"a", "b"}
Whitespace == {" ", "\n", "\t"}
\* the symbols the text extracted from a document is made of
Alphabet == Letters \cup {"\n"}

NoFile == <<"<no file>">>

Min(a, b) == IF a < b THEN a ELSE b
Max(a, b) == IF a > b THEN a ELSE b
\* ceil(a / b) for b > 0
CeilDiv(a, b) == (a + b - 1) \div b

RECURSIVE Concat(_)
Concat(ss) == IF ss = <<>> THEN <<>> ELSE Head(ss) \o Concat(Tail(ss))

\* all texts over S of length at most n
TextsUpTo(S, n) == UNION {[1..k -> S] : k \in 0..n}

\* Python text[lo:hi] for 0 <= lo, with hi clipped to len(text)
Slice(text, lo, hi) == SubSeq(text, lo + 1, Min(hi, Len(text)))

\* Python str.find(sep, from) + 1 (1-based), 0 when sep does not occur
RECURSIVE find(_, _, _)
find(text, sep, from) ==
    IF from + Len(sep) - 1 > Len(text) THEN 0
    ELSE IF SubSeq(text, from, from + Len(sep) - 1) = sep THEN from
    ELSE find(text, sep, from + 1)

\* Python str.split(sep), sep not empty
RECURSIVE split(_, _)
split(text, sep) ==
    LET i == find(text, sep, 1) IN
    IF i = 0 THEN <<text>>
    ELSE <<SubSeq(text, 1, i - 1)>> \o split(SubSeq(text, i + Len(sep), Len(text)), sep)

RECURSIVE lstrip(_)
lstrip(s) == IF s # <<>> /\ Head(s) \in Whitespace THEN lstrip(Tail(s)) ELSE s

RECURSIVE rstrip(_)
rstrip(s) ==
    IF s # <<>> /\ s[Len(s)] \in Whitespace THEN rstrip(SubSeq(s, 1, Len(s) - 1)) ELSE s

\* Python str.strip()
strip(s) == rstrip(lstrip(s))

(***************************************************************************)
(* text_chunking.py                                                        *)
(***************************************************************************)
\* the separator written by data_extraction.py and split on by chunk_all_texts
DocMarker == <<"\n", "\n", DocMarkerCore, "\n", "\n">>
\* the text written after every chunk
ChunkEnd == <<"\n", ChunkEndCore, "\n">>

\* chunk_text's loop from position start: the chunks with the position each
\* was cut at
RECURSIVE chunk_from(_, _, _)
chunk_from(text, start, n) ==
    IF start < Len(text)
    THEN <<[start |-> start, text |-> Slice(text, start, start + n)]>>
         \o chunk_from(text, start + n, n)
    ELSE <<>>

\* a slicing bug: one character too many in every chunk
chunk_text_long(text, n) ==
    [i \in 1..Len(chunk_from(text, 0, n)) |->
        [start |-> chunk_from(text, 0, n)[i].start,
         text |-> Slice(text, chunk_from(text, 0, n)[i].start,
                        chunk_from(text, 0, n)[i].start + n + 1)]]

chunk_text(text, n) == chunk_from(text, 0, n)

\* the loop of chunk_all_texts over docs: all_chunks, each chunk with the
\* index of the document it was cut from
RECURSIVE extend_chunks(_, _, _)
extend_chunks(ds, d, n) ==
    IF d > Len(ds) THEN <<>>
    ELSE [i \in 1..Len(chunk_text(ds[d], n)) |->
            [doc |-> d, start |-> chunk_text(ds[d], n)[i].start,
             text |-> chunk_text(ds[d], n)[i].text]]
         \o extend_chunks(ds, d + 1, n)

\* the write loop of chunk_all_texts
RECURSIVE write_chunks(_)
write_chunks(cs) ==
    IF cs = <<>> THEN <<>>
    ELSE strip(Head(cs).text) \o ChunkEnd \o write_chunks(Tail(cs))

\* Python sep.join(ts)
RECURSIVE join(_, _)
join(sep, ts) ==
    IF ts = <<>> THEN <<>>
    ELSE IF Len(ts) = 1 THEN Head(ts)
    ELSE Head(ts) \o sep \o join(sep, Tail(ts))

\* the texts of the input documents: s cut at the positions cuts
CutAt(s, cuts) ==
    [j \in 1..(Len(cuts) + 1) |->
        SubSeq(s, (IF j = 1 THEN 0 ELSE cuts[j - 1]) + 1,
                  IF j = Len(cuts) + 1 THEN Len(s) ELSE cuts[j])]

\* the nondecreasing lists of at most k cut positions in 0..n
CutsOf(n, k) ==
    {c \in UNION {[1..m -> 0..n] : m \in 0..k} :
        \A j \in 2..Len(c) : c[j - 1] <= c[j]}

\* the lists of 1..k document texts of total length at most n
InputTexts(n, k) ==
    UNION {{CutAt(s, cuts) : cuts \in CutsOf(Len(s), k - 1)} :
            s \in TextsUpTo(Alphabet, n)}

(***************************************************************************)
(* clustering.py                                                           *)
(***************************************************************************)
\* the value of a record's "cluster" field when the record has none
NoCluster == -1
\* the defaults of determine_optimal_clusters
DefaultMinClusters == 3
DefaultMaxClusters == 50
\* a record's "embedding": the key is missing, the list is empty, or it is a
\* vector of at least one number
EmbeddingKinds == {"missing", "empty", "vector"}
\* silhouette_score's values in [-1, 1], by rank, and NoScore for a candidate
\* whose fit or score raised
Silhouettes == {-1, 0, 1}
NoScore == -2
NoneArg == [none |-> TRUE, val |-> 0]
NumClustersArgs == {NoneArg} \cup {[none |-> FALSE, val |-> v] : v \in -1..MaxRequested}
NoEmbeddings == "ValueError: No embeddings found"
KMeansError == "ValueError: n_samples should be >= n_clusters"

\* Python list(range(a, b, step)), step > 0
range(a, b, step) ==
    [i \in 1..(IF b > a THEN CeilDiv(b - a, step) ELSE 0) |-> a + (i - 1) * step]

Elements(seq) == {seq[i] : i \in 1..Len(seq)}

\* lines 21-22: the candidate bounds
\* a lower bound that is the configured minimum whatever the document size
min_k_configured(n, min_clusters) == min_clusters

min_k(n, min_clusters) == Min(min_clusters, Max(2, n \div 20))
\* an upper bound that leaves out the configured maximum
max_k_uncapped(n, min_clusters, max_clusters) ==
    Max(min_k(n, min_clusters) + 2, n \div 5)

max_k(n, min_clusters, max_clusters) ==
    Min(max_clusters, Max(min_k(n, min_clusters) + 2, n \div 5))

\* lines 25-29: the candidates
cluster_range(n, min_clusters, max_clusters) ==
    LET lo == min_k(n, min_clusters)
        hi == max_k(n, min_clusters, max_clusters)
    IN  IF hi > 30 THEN range(lo, hi, Max(1, (hi - lo) \div 10))
        ELSE range(lo, hi, 1)

\* lines 42-46: the candidates KMeans is fitted for
fitted_candidates(n, min_clusters, max_clusters) ==
    LET candidates == cluster_range(n, min_clusters, max_clusters)
    IN  IF Len(candidates) < 2 THEN <<>>
        ELSE SelectSeq(candidates, LAMBDA k : ~(n <= k))

\* lines 41-56: silhouette_scores, the candidates that got a score
silhouette_scores(n, min_clusters, max_clusters, score) ==
    SelectSeq(fitted_candidates(n, min_clusters, max_clusters),
              LAMBDA k : score[k] # NoScore)

\* a maximum that keeps the last candidate of the highest score
last_best(ks, score) ==
    LET i == CHOOSE i \in 1..Len(ks) :
                 /\ \A j \in 1..Len(ks) : score[ks[j]] <= score[ks[i]]
                 /\ \A j \in (i + 1)..Len(ks) : score[ks[j]] < score[ks[i]]
    IN  ks[i]

\* Python max(pairs, key=score)[0]: the first candidate of the highest score
first_best(ks, score) ==
    LET i == CHOOSE i \in 1..Len(ks) :
                 /\ \A j \in 1..Len(ks) : score[ks[j]] <= score[ks[i]]
                 /\ \A j \in 1..(i - 1) : score[ks[j]] < score[ks[i]]
    IN  ks[i]

determine_optimal_clusters(n, min_clusters, max_clusters, score) ==
    LET scored == silhouette_scores(n, min_clusters, max_clusters, score)
    IN  IF Len(cluster_range(n, min_clusters, max_clusters)) < 2
        THEN min_k(n, min_clusters)
        ELSE IF scored = <<>>
        THEN min_k(n, min_clusters)
        ELSE first_best(scored, score)

\* line 70: the records whose embedding is there and not empty
has_embedding(item) == item.emb = "vector"
vectors_of(data) == SelectSeq(data, has_embedding)

\* line 82: is the number of clusters left to determine_optimal_clusters
unspecified(arg) == arg.none \/ arg.val <= 0

\* lines 82-83: num_clusters before the check of line 86
selected_clusters(n, arg, score) ==
    IF unspecified(arg)
    THEN determine_optimal_clusters(n, DefaultMinClusters, DefaultMaxClusters, score)
    ELSE arg.val

\* a reduction to the sample count, never below one cluster
reduced_clusters_to_n(n) == Max(1, n)

\* line 89: the reduced number of clusters
reduced_clusters(n) == Max(2, n \div 3)

\* lines 86-90: num_clusters as passed to KMeans
final_clusters(n, arg, score) ==
    LET selected == selected_clusters(n, arg, score)
    IN  IF n < selected THEN reduced_clusters(n) ELSE selected

\* the functions score may be: one value for every candidate
ScoreChoices(n) ==
    [Elements(cluster_range(n, DefaultMinClusters, DefaultMaxClusters))
        -> Silhouettes \cup {NoScore}]

\* the functions score may be in a call perform_clustering(data, arg): no
\* candidate is scored when the caller names the number of clusters
CallScoreChoices(n, arg) ==
    IF unspecified(arg) THEN ScoreChoices(n)
    ELSE {[k \in Elements(cluster_range(n, DefaultMinClusters, DefaultMaxClusters))
             |-> NoScore]}

\* the labels KMeans(n_clusters=k).fit_predict may give n vectors
LabelChoices(n, k) ==
    IF n <= MaxFreeLabels THEN [1..n -> 0..(k - 1)]
    ELSE {[j \in 1..n |-> (j + s) % k] : s \in 0..(k - 1)} \cup {[j \in 1..n |-> 0]}

\* perform_clustering: what the call ends with.  score and labels are what
\* silhouette_score and KMeans compute from the vectors.
perform_clustering(data, arg, score, labels) ==
    LET n == Len(vectors_of(data))
        k == final_clusters(n, arg, score)
        tried == IF unspecified(arg)
                 THEN fitted_candidates(n, DefaultMinClusters, DefaultMaxClusters)
                 ELSE <<>>
    IN  IF n = 0
        THEN [raised |-> NoEmbeddings, clusters |-> <<>>, num_clusters |-> arg.val,
              kmeans_calls |-> <<>>, log |-> <<>>]
        ELSE [raised |-> IF n < k THEN KMeansError ELSE "",
              clusters |-> IF n < k THEN <<>> ELSE [j \in 1..n |-> labels[j]],
              num_clusters |-> k,
              kmeans_calls |-> tried \o <<k>>,
              log |-> IF n < selected_clusters(n, arg, score)
                      THEN <<"Reducing clusters">> ELSE <<>>]

\* a record as embedding_generation.py writes it, with the "cluster" field
\* clustering.py adds
Record(id, text, emb) == [id |-> id, text |-> text, emb |-> emb, cluster |-> NoCluster]

\* the record lists of at most n records of which at most k
\* have no usable embedding
RecordLists(n, k) ==
    UNION {{[i \in 1..m |-> Record(i - 1, <<>>, kinds[i])] :
              kinds \in {ks \in [1..m -> EmbeddingKinds] :
                           Cardinality({i \in 1..m : ks[i] # "vector"}) <= k}} :
           m \in 0..n}

(***************************************************************************)
(* Words.  The texts of records are sequences of words (what str.split     *)
(* gives).  A word is [k |-> kind, n |-> index]:                           *)
(*   "content"  the n-th of the distinct lower-case alphabetic words of    *)
(*              more than 3 letters that are no stop word ("revenue")      *)
(*   "Content"  the same word capitalised ("Revenue")                      *)
(*   "stop"     an English stop word of at most 3 letters ("the")          *)
(*   "longstop" an English stop word of more than 3 letters ("about")      *)
(*   "punct"    the n-th content word with a comma attached ("revenue,")   *)
(*   "char"     a single letter that is no stop word ("x")                 *)
(***************************************************************************)
Word(k, n) == [k |-> k, n |-> n]

\* Python str.lower() of a word
lower(w) == IF w.k = "Content" THEN Word("content", w.n) ELSE w

lower_text(text) == [i \in 1..Len(text) |-> lower(text[i])]

(***************************************************************************)
(* topic_naming.py                                                         *)
(***************************************************************************)
\* CountVectorizer's analyzer: lower-case, the tokens of two or more
\* alphanumeric characters, the English stop words removed
analyzer_keeps(w) == w.k \in {"content", "punct"}
token_of(w) == Word("content", w.n)
tokens(text) ==
    LET kept == SelectSeq(lower_text(text), analyzer_keeps)
    IN  [i \in 1..Len(kept) |-> token_of(kept[i])]

\* ngram_range=(1, 3): the n-grams of a token list, with repetitions
ngram_positions(toks) ==
    {<<i, m>> \in (1..Len(toks)) \X (1..3) : i + m - 1 <= Len(toks)}
ngrams(toks) == {SubSeq(toks, p[1], p[1] + p[2] - 1) : p \in ngram_positions(toks)}
ngram_count(toks, g) ==
    Cardinality({p \in ngram_positions(toks) : SubSeq(toks, p[1], p[1] + p[2] - 1) = g})

\* vectorizer.get_feature_names_out(): the phrases of all the samples
feature_names(samples) == UNION {ngrams(tokens(samples[i])) : i \in 1..Len(samples)}

RECURSIVE SumCounts(_, _)
SumCounts(samples, g) ==
    IF samples = <<>> THEN 0
    ELSE ngram_count(tokens(Head(samples)), g) + SumCounts(Tail(samples), g)

\* line 35: the frequency of a phrase across the samples
phrase_counts(samples) == [g \in feature_names(samples) |-> SumCounts(samples, g)]

\* lines 38-39: the lists top_phrases may be: the first upto phrases by
\* falling frequency.  np.argsort leaves the order of equal counts open.
RECURSIVE TopPhrases(_, _, _)
TopPhrases(S, cnt, upto) ==
    IF S = {} \/ upto = 0 THEN {<<>>}
    ELSE LET best == {g \in S : \A h \in S : cnt[h] <= cnt[g]}
         IN  UNION {{<<g>> \o r : r \in TopPhrases(S \ {g}, cnt, upto - 1)} : g \in best}

top_phrases_choices(samples, max_keywords) ==
    TopPhrases(feature_names(samples), phrase_counts(samples), max_keywords * 2)

\* the labels name_cluster returns
TopicLabel(cid) == [kind |-> "Topic", id |-> cid, phrases |-> <<>>]
ClusterLabel(cid) == [kind |-> "Cluster", id |-> cid, phrases |-> <<>>]
\* a title: formatted_phrases[0] & the others joined by blanks
TitleLabel(formatted) == [kind |-> "title", id |-> NoCluster, phrases |-> formatted]
\* an exception leaving a function
Raised == [kind |-> "raised", id |-> NoCluster, phrases |-> <<>>]

\* Python str.capitalize() of a phrase
capitalize(g) == [capitalized |-> TRUE, words |-> g]

\* Python seq[:n]
Take(seq, n) == SubSeq(seq, 1, Min(n, Len(seq)))

\* lines 43-54: selected_phrases
selected_phrases(top_phrases, max_keywords) ==
    LET multi_word_phrases == SelectSeq(top_phrases, LAMBDA g : Len(g) > 1)
        single_words == SelectSeq(top_phrases, LAMBDA g : Len(g) = 1)
        selected == Take(multi_word_phrases, Min(max_keywords, Len(multi_word_phrases)))
    IN  IF Len(selected) < max_keywords
        THEN selected \o Take(single_words, max_keywords - Len(selected))
        ELSE selected

\* lines 15-71: the body of name_cluster's try.  top_phrases is the list of
\* line 39.  CountVectorizer.fit_transform raises ValueError ("empty
\* vocabulary") when no sample has a token left.
name_cluster_try(samples, cid, max_keywords, top_phrases) ==
    IF Len(samples) = 0 THEN TopicLabel(cid)
    ELSE IF feature_names(samples) = {} THEN Raised
    ELSE IF selected_phrases(top_phrases, max_keywords) = <<>> THEN TopicLabel(cid)
    ELSE LET sel == Take(selected_phrases(top_phrases, max_keywords), max_keywords)
         IN  TitleLabel([i \in 1..Len(sel) |-> capitalize(sel[i])])

\* name_cluster without its except clause
name_cluster_no_except(samples, cid, max_keywords, top_phrases) ==
    name_cluster_try(samples, cid, max_keywords, top_phrases)

\* lines 9-74
name_cluster(samples, cid, max_keywords, top_phrases) ==
    IF name_cluster_try(samples, cid, max_keywords, top_phrases) = Raised
    THEN ClusterLabel(cid)
    ELSE name_cluster_try(samples, cid, max_keywords, top_phrases)

\* Python str(x), the key of a cluster id in cluster_names.json
str(x) == <<"str", x>>

\* the keys of a dict that keeps its keys sorted
cluster_keys_sorted(data) ==
    LET ids == {data[i].cluster : i \in 1..Len(data)}
        rank(c) == Cardinality({d \in ids : d < c}) + 1
    IN  [r \in 1..Cardinality(ids) |-> CHOOSE c \in ids : rank(c) = r]

\* lines 81-86: the keys of the dict clusters, in insertion order
RECURSIVE cluster_keys(_)
cluster_keys(data) ==
    IF data = <<>> THEN <<>>
    ELSE LET before == cluster_keys(SubSeq(data, 1, Len(data) - 1))
             cid == data[Len(data)].cluster
         IN  IF cid \in Elements(before) THEN before ELSE Append(before, cid)

\* lines 81-86: the texts of a cluster, in the order of data
RECURSIVE cluster_texts(_, _)
cluster_texts(data, cid) ==
    IF data = <<>> THEN <<>>
    ELSE (IF Head(data).cluster = cid THEN <<Head(data).text>> ELSE <<>>)
         \o cluster_texts(Tail(data), cid)

\* lines 88-93: the dicts cluster_names may be, as the list of its items
RECURSIVE name_all(_, _, _)
name_all(data, keys, max_keywords) ==
    IF keys = <<>> THEN {<<>>}
    ELSE {<<<<str(Head(keys)),
              name_cluster(cluster_texts(data, Head(keys)), Head(keys),
                           max_keywords, top)>>>> \o rest :
            top \in top_phrases_choices(cluster_texts(data, Head(keys)), max_keywords),
            rest \in name_all(data, Tail(keys), max_keywords)}

\* did a call of name_cluster let an exception out
any_raised(names) == \E i \in 1..Len(names) : names[i][2] = Raised

(***************************************************************************)
(* generate_json.py                                                        *)
(***************************************************************************)
\* dict.get(key, default) on a dict given as the list of its items
dict_get(items, key, default) ==
    IF \E i \in 1..Len(items) : items[i][1] = key
    THEN items[CHOOSE i \in 1..Len(items) : items[i][1] = key][2]
    ELSE default

\* is item["cluster"] a KeyError
no_cluster_field(item) == item.cluster = NoCluster

\* a grouping that overwrites the list of a cluster with its latest item
cluster_items_overwritten(data, cid) ==
    LET own == SelectSeq(data, LAMBDA item : item.cluster = cid)
    IN  IF own = <<>> THEN <<>> ELSE <<own[Len(own)]>>

\* lines 20-25: the items of a cluster, in the order of clustered_data
RECURSIVE cluster_items(_, _)
cluster_items(data, cid) ==
    IF data = <<>> THEN <<>>
    ELSE (IF Head(data).cluster = cid THEN <<Head(data)>> ELSE <<>>)
         \o cluster_items(Tail(data), cid)

\* lines 28-35: the list clusters
clusters_list(data, names) ==
    [i \in 1..Len(cluster_keys(data)) |->
        [id |-> cluster_keys(data)[i],
         name |-> dict_get(names, str(cluster_keys(data)[i]),
                           ClusterLabel(cluster_keys(data)[i])),
         items |-> cluster_items(data, cluster_keys(data)[i])]]

\* lines 38-44: config, the artifact
artifact(data, names) ==
    [title |-> "Document Insights", similarity |-> "0.8", charsPerPixel |-> 20,
     clusters |-> clusters_list(data, names)]

NoArtifact == [title |-> "", similarity |-> "", charsPerPixel |-> 0, clusters |-> <<>>]

(***************************************************************************)
(* app.py: compute_topic_overlap                                           *)
(***************************************************************************)
\* line 92: len(word) > 3 and word.isalpha(), of a lower-cased word
is_significant(w) == w.k \in {"content", "longstop"}

\* lines 83-93: topic_words.get(cid, set())
topic_words(data, topics, cid) ==
    IF \E p \in Elements(topics) : p[1] = cid
    THEN UNION {{w \in Elements(lower_text(data[i].text)) : is_significant(w)} :
                  i \in {i \in 1..Len(data) : data[i].cluster = cid}}
    ELSE {}

\* Python round(common / total, 2), in hundredths: to the nearest hundredth,
\* a tie to the even one.  (A quotient of fewer than 40 words is a tie only
\* when it is a multiple of 1/8, which a float holds exactly.)
round2(common, total) ==
    LET q == (100 * common) \div total
        r == (100 * common) % total
    IN  IF 2 * r > total THEN q + 1
        ELSE IF 2 * r < total THEN q
        ELSE IF q % 2 = 0 THEN q ELSE q + 1

\* a threshold bug: >= for >
is_reported_at_threshold(common, total) == total > 0 /\ 10 * common >= total

\* lines 105-106: overlap = common / total if total > 0 else 0; overlap > 0.1
is_reported(common, total) == total > 0 /\ 10 * common > total

\* lines 99-107: the edge appended for the topics at positions i < j of
\* topic_names, or none
edge_of(data, topics, i, j) ==
    LET words_i == topic_words(data, topics, topics[i][1])
        words_j == topic_words(data, topics, topics[j][1])
        common == Cardinality(words_i \cap words_j)
        total == Cardinality(words_i \cup words_j)
    IN  IF is_reported(common, total)
        THEN <<[name_i |-> topics[i][2], name_j |-> topics[j][2],
                score |-> round2(common, total), i |-> i, j |-> j]>>
        ELSE <<>>

\* lines 97-98: the pairs i < j in the order of the two loops, from (i, j) on
RECURSIVE overlap_loop(_, _, _, _)
overlap_loop(data, topics, i, j) ==
    IF i > Len(topics) THEN <<>>
    ELSE IF j > Len(topics) THEN overlap_loop(data, topics, i + 1, i + 2)
    ELSE edge_of(data, topics, i, j) \o overlap_loop(data, topics, i, j + 1)

compute_topic_overlap(data, topics) == overlap_loop(data, topics, 1, 2)

\* the text "word_lo ... word_hi"
WordRange(lo, hi) == [i \in 1..(IF hi >= lo THEN hi - lo + 1 ELSE 0) |-> Word("content", lo + i - 1)]

\* an item of clustered_data
Item(id, text, cid) == [id |-> id, text |-> text, emb |-> "vector", cluster |-> cid]

(***************************************************************************)
(* The stages as main.py and app.py run them.  Here a document is the list *)
(* of the windows chunk_text cuts it into, a window the list of its words. *)
(***************************************************************************)
\* text_chunking.py lines 18-22: all_chunks, the chunks of the documents in
\* order
RECURSIVE all_chunks_of(_)
all_chunks_of(texts) ==
    IF texts = <<>> THEN <<>> ELSE Head(texts) \o all_chunks_of(Tail(texts))

\* embedding_generation.py line 41: the chunks that are not blank
is_blank(chunk) == chunk = <<>>
nonblank_chunks(cs) == SelectSeq(cs, LAMBDA c : ~is_blank(c))

\* TfidfVectorizer's default analyzer: the tokens of two or more
\* alphanumeric characters; fit raises ValueError on an empty vocabulary
has_token(chunk) == \E i \in 1..Len(chunk) : chunk[i].k # "char"
empty_vocabulary(cs) == ~\E i \in 1..Len(cs) : has_token(cs[i])

\* embedding_generation.py lines 49-57: embeddings_data
generate_embeddings(cs) == [i \in 1..Len(cs) |-> Record(i - 1, cs[i], "vector")]

\* clustering.py lines 96-98: the label i goes to the record i
save_clustered_data(data, labels) ==
    [i \in 1..Len(data) |->
        IF i <= Len(labels) THEN [data[i] EXCEPT !.cluster = labels[i]] ELSE data[i]]

\* main.py lines 30-35 and app.py lines 38-46: the scripts of a run
pipeline_scripts(d) ==
    IF d = "main.py"
    THEN <<"backend/data_extraction.py", "backend/text_chunking.py",
           "backend/embedding_generation.py", "backend/clustering.py",
           "backend/topic_naming.py", "backend/generate_json.py">>
    ELSE <<"backend/data_extraction.py", "backend/text_chunking.py",
           "backend/embedding_generation.py", "backend/clustering.py",
           "backend/topic_naming.py", "backend/similarity.py",
           "backend/generate_json.py">>

\* a driver that goes on to the next script whatever the last one returned
after_any_result(d, script, returncode) ==
    LET scripts == pipeline_scripts(d)
        i == CHOOSE i \in 1..Len(scripts) : scripts[i] = script
    IN  IF i < Len(scripts) THEN scripts[i + 1]
        ELSE IF d = "main.py" THEN "main:completed" ELSE "app:verify"

\* main.py lines 29-38 and app.py lines 47-52: where the driver goes after a
\* script returned
after(d, script, returncode) ==
    LET scripts == pipeline_scripts(d)
        i == CHOOSE i \in 1..Len(scripts) : scripts[i] = script
    IN  IF returncode # 0
        THEN (IF d = "main.py" THEN "main:error" ELSE "app:stopped")
        ELSE IF i < Len(scripts) THEN scripts[i + 1]
        ELSE IF d = "main.py" THEN "main:completed" ELSE "app:verify"

\* subprocess.run's result, with the file of outputs the script wrote
Result(script, returncode, output) ==
    [script |-> script, returncode |-> returncode, output |-> output]

(***************************************************************************)
(* app.py: compute_topic_positions                                         *)
(***************************************************************************)
\* lines 114-118: cluster_embeddings[cid], the vectors of the items of a
\* topic, as the places of the items
cluster_embeddings(data, topics, cid) ==
    {i \in 1..Len(data) :
        /\ data[i].emb = "vector"
        /\ data[i].cluster = cid
        /\ \E p \in Elements(topics) : p[1] = cid}

\* a layout that keeps every topic
in_layout_always(data, topics, cid) == TRUE

\* lines 119 and 124: cid in avg_embs
in_layout(data, topics, cid) == cluster_embeddings(data, topics, cid) # {}

\* lines 121-126: the topics of emb_list and topic_names, in the order of
\* topics_dict
layout_topics(data, topics) ==
    SelectSeq(topics, LAMBDA p : in_layout(data, topics, p[1]))

\* lines 131-146: MDS gives one row for every row of the distance matrix;
\* a row is known here by the topic whose average vector it places
mds_rows(laid) == [i \in 1..Len(laid) |-> [of |-> laid[i][1]]]

\* the call: [none, positions, topic_names]
compute_topic_positions(data, topics) ==
    LET laid == layout_topics(data, topics)
    IN  IF laid = <<>>
        THEN [none |-> TRUE, positions |-> <<>>, topic_names |-> <<>>]
        ELSE [none |-> FALSE, positions |-> mds_rows(laid),
              topic_names |-> [i \in 1..Len(laid) |-> laid[i][2]]]

(***************************************************************************)
(* embedding_generation.py: the module globals and TfidfVectorizer.  A     *)
(* text is a sequence of words; a term is a word that is a token.  A       *)
(* fitted vectorizer is its sorted vocabulary and, per term, the pair of   *)
(* the number of fitted documents and the term's document frequency, the   *)
(* two numbers idf is computed from.                                       *)
(***************************************************************************)
\* the module globals of a fresh process: neither name is defined
NoGlobals ==
    [defined |-> FALSE, fit |-> FALSE, vocabulary |-> <<>>, idf |-> <<>>,
     fitted |-> "undefined"]

\* _vectorizer = TfidfVectorizer(max_features=MAX_FEATURES): a new, unfitted
\* object; _fitted is left as it is
new_vectorizer(g) ==
    [g EXCEPT !.defined = TRUE, !.fit = FALSE, !.vocabulary = <<>>, !.idf = <<>>]

terms_of(corpus) ==
    {w \in UNION {{corpus[d][i] : i \in 1..Len(corpus[d])} : d \in 1..Len(corpus)} :
        w.k # "char"}
term_count(t, text) == Cardinality({i \in 1..Len(text) : text[i] = t})
corpus_count(t, corpus) ==
    Cardinality(UNION {{<<d, i>> : i \in {i \in 1..Len(corpus[d]) : corpus[d][i] = t}} :
                          d \in 1..Len(corpus)})
document_frequency(t, corpus) ==
    Cardinality({d \in 1..Len(corpus) : term_count(t, corpus[d]) > 0})

\* max_features: the terms of the highest count over the corpus, in term
\* order among equal counts
kept_terms(corpus, cap) ==
    LET ts == terms_of(corpus)
        count == [t \in ts |-> corpus_count(t, corpus)]
    IN  {t \in ts :
            Cardinality({u \in ts :
                \/ count[u] > count[t]
                \/ count[u] = count[t] /\ u.n < t.n}) < cap}

\* the terms of a set in term order
sorted_terms(ts) ==
    [i \in 1..Cardinality(ts) |->
        CHOOSE t \in ts : Cardinality({u \in ts : u.n < t.n}) = i - 1]

\* _vectorizer.fit(corpus), for a corpus that has a term
fit_vectorizer(g, corpus, cap) ==
    LET vocabulary == sorted_terms(kept_terms(corpus, cap))
    IN  [g EXCEPT !.fit = TRUE,
                  !.vocabulary = vocabulary,
                  !.idf = [i \in 1..Len(vocabulary) |->
                              <<Len(corpus), document_frequency(vocabulary[i], corpus)>>]]

\* _vectorizer.transform([text]).toarray()[0]: per term of the vocabulary
\* tf * idf, then the row scaled to length 1: a row of one nonzero weight
\* becomes that weight 1.0, a row of zeros stays
transform(g, text) ==
    LET counts == [i \in 1..Len(g.vocabulary) |-> term_count(g.vocabulary[i], text)]
        nonzero == {i \in 1..Len(counts) : counts[i] > 0}
    IN  [i \in 1..Len(counts) |->
            IF counts[i] = 0 THEN [w |-> "zero", tf |-> 0, n |-> 0, df |-> 0]
            ELSE IF Cardinality(nonzero) = 1 THEN [w |-> "one", tf |-> 0, n |-> 0, df |-> 0]
            ELSE [w |-> "tfidf", tf |-> counts[i], n |-> g.idf[i][1], df |-> g.idf[i][2]]]

\* embedding_generation.py lines 6-27: the globals afterwards, the vector
\* returned and the exception raised
get_embedding(g, text, cap) ==
    LET g1 == IF g.defined THEN g ELSE [new_vectorizer(g) EXCEPT !.fitted = "false"]
    IN  IF g1.fitted = "undefined"
        THEN [g |-> g1, vector |-> <<>>, raised |-> "NameError"]
        ELSE IF g1.fitted = "false" /\ ~has_token(text)
        THEN [g |-> g1, vector |-> <<>>, raised |-> "ValueError"]
        ELSE LET g2 == IF g1.fitted = "false"
                       THEN [fit_vectorizer(g1, <<text>>, cap) EXCEPT !.fitted = "true"]
                       ELSE g1
             IN  IF ~g2.fit
                 THEN [g |-> g2, vector |-> <<>>, raised |-> "NotFittedError"]
                 ELSE [g |-> g2, vector |-> transform(g2, text), raised |-> ""]

\* a fit that is skipped when an earlier call has fitted the vectorizer
fit_all_once(g, cs, cap) ==
    IF g.fitted = "true" /\ g.fit THEN g
    ELSE IF empty_vocabulary(cs) THEN new_vectorizer(g)
    ELSE [fit_vectorizer(new_vectorizer(g), cs, cap) EXCEPT !.fitted = "true"]

\* embedding_generation.py lines 44-47: the globals afterwards; fit raises
\* ValueError on an empty vocabulary and leaves the new object unfitted
fit_all(g, cs, cap) ==
    IF empty_vocabulary(cs) THEN new_vectorizer(g)
    ELSE [fit_vectorizer(new_vectorizer(g), cs, cap) EXCEPT !.fitted = "true"]

\* embedding_generation.py lines 49-59: get_embedding chunk by chunk
RECURSIVE embed_each(_, _, _, _)
embed_each(g, cs, out, cap) ==
    IF cs = <<>> THEN [g |-> g, out |-> out, raised |-> ""]
    ELSE LET r == get_embedding(g, Head(cs), cap)
         IN  IF r.raised # "" THEN [g |-> r.g, out |-> out, raised |-> r.raised]
             ELSE embed_each(r.g, Tail(cs), Append(out, r.vector), cap)

\* embedding_generation.py lines 41-59 on the cs of the file
generate_embeddings_run(g, cs, cap) ==
    LET g2 == fit_all(g, cs, cap)
    IN  IF ~g2.fit THEN [g |-> g2, out |-> <<>>, raised |-> "ValueError"]
        ELSE embed_each(g2, cs, <<>>, cap)

(***************************************************************************)
(* The idle values of each part's variables.                               *)
(***************************************************************************)
ChunkerIdle ==
    /\ full_text = <<>>
    /\ max_chars = 1
    /\ docs = <<>>
    /\ all_chunks = <<>>
    /\ chunks_txt = NoFile

ClustererIdle ==
    /\ embeddings_data = <<>>
    /\ num_clusters_arg = NoneArg
    /\ num_clusters = 0
    /\ clusters = <<>>
    /\ raised = ""
    /\ kmeans_calls = <<>>
    /\ log = <<>>

NamerIdle ==
    /\ MAX_KEYWORDS = 1
    /\ files = {}
    /\ clustered_json = <<>>
    /\ cluster_names_json = <<>>
    /\ docexplore_json = NoArtifact
    /\ exit_code = 0
    /\ text_samples = <<>>
    /\ cluster_id = 0
    /\ title = TopicLabel(0)

OverlapIdle ==
    /\ clustered_data = <<>>
    /\ topics_dict = <<>>
    /\ overlaps = <<>>

PipelineIdle ==
    /\ driver = ""
    /\ reports = <<>>
    /\ all_texts = <<>>
    /\ chunks = <<>>
    /\ embeddings_json = <<>>
    /\ results = <<>>
    /\ doc_uploaded = FALSE
    /\ page_data = NoArtifact
    /\ runs = 0
    /\ artifact_run = 0

LayoutIdle ==
    /\ positions = <<>>
    /\ topic_names = <<>>
    /\ returned_none = FALSE

SelectorIdle ==
    /\ doc_size = 0
    /\ min_clusters_arg = 0
    /\ max_clusters_arg = 0
    /\ silhouette = <<>>
    /\ candidate_list = <<>>
    /\ score_pairs = <<>>
    /\ best_n_clusters = 0

VectorizerIdle ==
    /\ MAX_FEATURES = 0
    /\ vectorizer_globals = NoGlobals
    /\ globals_before = NoGlobals
    /\ run_chunks = <<>>
    /\ embeddings_out = <<>>
    /\ embedding_raised = ""

(***************************************************************************)
(* SpecChunker: text_chunking.py run on every bounded all_texts.txt.       *)
(***************************************************************************)
InitChunker ==
    /\ pc = "chunker:start"
    \* data_extraction.py writes the documents' texts joined by the marker
    /\ full_text \in {join(DocMarker, ts) : ts \in InputTexts(MaxTextLen, MaxDocs)}
    /\ max_chars \in 1..MaxChunkSize
    /\ docs = <<>>
    /\ all_chunks = <<>>
    /\ chunks_txt = NoFile
    /\ ClustererIdle
    /\ NamerIdle
    /\ OverlapIdle
    /\ PipelineIdle
    /\ LayoutIdle
    /\ SelectorIdle
    /\ VectorizerIdle

chunk_all_texts ==
    /\ pc = "chunker:start"
    /\ docs' = split(full_text, DocMarker)
    /\ all_chunks' = extend_chunks(docs', 1, max_chars)
    /\ chunks_txt' = write_chunks(all_chunks')
    /\ pc' = "chunker:done"
    /\ UNCHANGED <<full_text, max_chars>>
    /\ UNCHANGED <<clustererVars, namerVars, overlapVars, pipelineVars, layoutVars, selectorVars, vectorizerVars>>

NextChunker == chunk_all_texts

SpecChunker == InitChunker /\ [][NextChunker]_vars

(***************************************************************************)
(* Claims about the chunker (checked under SpecChunker).                   *)
(***************************************************************************)
\* the chunks as they stand in chunks.txt, the delimiters discarded
WrittenChunks ==
    LET parts == split(chunks_txt, ChunkEnd) IN SubSeq(parts, 1, Len(parts) - 1)

\* the number of chunks the segments before segment d should give
RECURSIVE ChunksBefore(_)
ChunksBefore(d) ==
    IF d <= 1 THEN 0
    ELSE ChunksBefore(d - 1) + CeilDiv(Len(docs[d - 1]), max_chars)

\* C2: every segment gives ceil(len / max_chars) chunks, and the chunks
\* produced for a segment, concatenated in order, are the segment's text.
C2_ChunksReconstructSegment ==
    pc = "chunker:done" =>
        /\ Len(WrittenChunks) = ChunksBefore(Len(docs) + 1)
        /\ \A d \in 1..Len(docs) :
              Concat(SubSeq(WrittenChunks, ChunksBefore(d) + 1, ChunksBefore(d + 1)))
                  = docs[d]

\* C3: every chunk written is a substring of one segment, lying inside the
\* window of max_chars characters it was cut at; it is at most max_chars
\* long; the windows of two chunks of one segment do not overlap; and no
\* chunk holds the document marker or a part of it.
C3_ChunksBoundedDisjoint ==
    pc = "chunker:done" =>
        /\ Len(WrittenChunks) = Len(all_chunks)
        /\ \A i \in 1..Len(all_chunks) :
              LET c == all_chunks[i]
                  w == WrittenChunks[i]
              IN  /\ c.doc \in 1..Len(docs)
                  /\ Len(w) <= max_chars
                  /\ \E lo \in (c.start + 1)..(c.start + max_chars + 1) :
                        /\ lo + Len(w) - 1 <= Min(c.start + max_chars, Len(docs[c.doc]))
                        /\ w = SubSeq(docs[c.doc], lo, lo + Len(w) - 1)
                  /\ \A j \in 1..Len(all_chunks) :
                        (j # i /\ all_chunks[j].doc = c.doc) =>
                            \/ c.start + max_chars <= all_chunks[j].start
                            \/ all_chunks[j].start + max_chars <= c.start
                  /\ find(w, DocMarker, 1) = 0
                  /\ \A k \in 1..Len(w) : w[k] # DocMarkerCore

\* two documents were chunked, one of them into several chunks, and a chunk
\* lost whitespace when written
C3_Witness ==
    /\ pc = "chunker:done"
    /\ \E i, j \in 1..Len(all_chunks) :
          /\ all_chunks[i].doc = 2
          /\ all_chunks[j].start > 0
    /\ \E i \in 1..Len(all_chunks) :
          /\ WrittenChunks[i] # all_chunks[i].text
          /\ WrittenChunks[i] # <<>>

\* C14: a segment that is empty once trimmed gives no chunk, so no record
\* of chunks.txt stands for it, and an empty all_texts.txt gives a
\* chunks.txt without any record.
C14_BlankSegmentGivesNoChunk ==
    pc = "chunker:done" =>
        /\ \A d \in 1..Len(docs) :
              strip(docs[d]) = <<>> =>
                 \A i \in 1..Len(all_chunks) : all_chunks[i].doc # d
        /\ full_text = <<>> => (all_chunks = <<>> /\ chunks_txt = <<>>)

(***************************************************************************)
(* SpecClusterer: perform_clustering called on every bounded record list   *)
(* with every bounded num_clusters.                                        *)
(***************************************************************************)
InitClusterer ==
    /\ pc = "clusterer:start"
    /\ embeddings_data \in RecordLists(MaxRecords, MaxSkipped)
    /\ num_clusters_arg \in NumClustersArgs
    /\ num_clusters = 0
    /\ clusters = <<>>
    /\ raised = ""
    /\ kmeans_calls = <<>>
    /\ log = <<>>
    /\ ChunkerIdle
    /\ NamerIdle
    /\ OverlapIdle
    /\ PipelineIdle
    /\ LayoutIdle
    /\ SelectorIdle
    /\ VectorizerIdle

\* one call perform_clustering(embeddings_data, num_clusters_arg)
perform_clustering_call ==
    /\ pc = "clusterer:start"
    /\ LET n == Len(vectors_of(embeddings_data)) IN
         \E score \in CallScoreChoices(n, num_clusters_arg) :
         \E labels \in LabelChoices(n, final_clusters(n, num_clusters_arg, score)) :
            LET r == perform_clustering(embeddings_data, num_clusters_arg, score, labels)
            IN  /\ num_clusters' = r.num_clusters
                /\ clusters' = r.clusters
                /\ raised' = r.raised
                /\ kmeans_calls' = r.kmeans_calls
                /\ log' = r.log
    /\ pc' = "clusterer:done"
    /\ UNCHANGED <<embeddings_data, num_clusters_arg>>
    /\ UNCHANGED <<chunkerVars, namerVars, overlapVars, pipelineVars, layoutVars, selectorVars, vectorizerVars>>

NextClusterer == perform_clustering_call

SpecClusterer == InitClusterer /\ [][NextClusterer]_vars

(***************************************************************************)
(* Claims about perform_clustering (checked under SpecClusterer).          *)
(***************************************************************************)
\* the number of vectors the call clusters
NumVectors == Len(vectors_of(embeddings_data))

\* the call was asked for more clusters than there are vectors
RequestedTooMany == ~num_clusters_arg.none /\ num_clusters_arg.val > NumVectors

\* C6 as claimed: with at least 2 vectors the call succeeds for every
\* requested k; a requested k above n is reduced to max(2, n div 3) and the
\* reduction is logged; the k passed to KMeans satisfies 2 <= k <= n.
C6_SucceedsWithKAtLeastTwo ==
    (pc = "clusterer:done" /\ NumVectors >= 2) =>
        /\ raised = ""
        /\ RequestedTooMany =>
              (num_clusters = Max(2, NumVectors \div 3) /\ log # <<>>)
        /\ kmeans_calls[Len(kmeans_calls)] = num_clusters
        /\ 2 <= num_clusters
        /\ num_clusters <= NumVectors

\* C6 as amended: as claimed, but the k passed to KMeans satisfies
\* 1 <= k <= n, and 2 <= k unless the caller asked for exactly 1 cluster.
C6_SucceedsWithKAtLeastOne ==
    (pc = "clusterer:done" /\ NumVectors >= 2) =>
        /\ raised = ""
        /\ Len(clusters) = NumVectors
        /\ RequestedTooMany =>
              (num_clusters = Max(2, NumVectors \div 3) /\ log # <<>>)
        /\ ~RequestedTooMany => log = <<>>
        /\ kmeans_calls[Len(kmeans_calls)] = num_clusters
        /\ 1 <= num_clusters
        /\ num_clusters <= NumVectors
        /\ (num_clusters_arg.none \/ num_clusters_arg.val # 1) => 2 <= num_clusters

\* a call that asked for more clusters than its 9 or more vectors and was
\* reduced to n div 3 > 2 clusters
C6_Witness ==
    /\ pc = "clusterer:done"
    /\ NumVectors >= 9
    /\ RequestedTooMany
    /\ num_clusters = NumVectors \div 3
    /\ num_clusters > 2
    /\ log # <<>>
    /\ raised = ""

\* C7: with fewer than 2 vectors the call ends with an error and has not
\* attempted a single KMeans fit.
C7_NoPartitionBelowTwo ==
    (pc = "clusterer:done" /\ NumVectors < 2) =>
        /\ raised # ""
        /\ kmeans_calls = <<>>

(***************************************************************************)
(* SpecNamer: topic_naming.py and then generate_json.py run on every       *)
(* bounded clustered_embeddings.json, and name_cluster called on every     *)
(* bounded list of texts.                                                  *)
(***************************************************************************)
\* the values MAX_KEYWORDS is given
KeywordCaps == {1, 2}
\* the texts of the records: "the", "revenue", "Revenue about growth,"
NamingTexts ==
    {<<Word("stop", 1)>>,
     <<Word("content", 1)>>,
     <<Word("Content", 1), Word("longstop", 1), Word("punct", 2)>>}
\* the "cluster" fields of the records
ClusterFields == {NoCluster, 0, 1}

ClusteredLists(n) ==
    UNION {{[i \in 1..m |-> [id |-> i - 1, text |-> f[i][1], emb |-> "vector",
                             cluster |-> f[i][2]]] :
              f \in [1..m -> NamingTexts \X ClusterFields]} :
           m \in 0..n}

\* the lists of texts name_cluster is called with
SampleLists == UNION {[1..m -> NamingTexts] : m \in 0..2}

InitNamer ==
    /\ pc = "namer:start"
    /\ MAX_KEYWORDS \in KeywordCaps
    /\ files = {"clustered_embeddings.json"}
    /\ clustered_json \in ClusteredLists(MaxClustered)
    /\ cluster_names_json = <<>>
    /\ docexplore_json = NoArtifact
    /\ exit_code = 0
    /\ text_samples = <<>>
    /\ cluster_id = 0
    /\ title = TopicLabel(0)
    /\ ChunkerIdle
    /\ ClustererIdle
    /\ OverlapIdle
    /\ PipelineIdle
    /\ LayoutIdle
    /\ SelectorIdle
    /\ VectorizerIdle

\* topic_naming.py: assign_cluster_names(clustered_file, output_file)
assign_cluster_names ==
    /\ pc = "namer:start"
    /\ "clustered_embeddings.json" \in files
    /\ \E names \in name_all(clustered_json, cluster_keys(clustered_json), MAX_KEYWORDS) :
         /\ cluster_names_json' = IF any_raised(names) THEN cluster_names_json ELSE names
         /\ files' = IF any_raised(names) THEN files
                     ELSE files \cup {"cluster_names.json"}
         /\ exit_code' = IF any_raised(names) THEN 1 ELSE 0
    /\ pc' = "namer:named"
    /\ UNCHANGED <<MAX_KEYWORDS, clustered_json, docexplore_json, text_samples,
                   cluster_id, title>>
    /\ UNCHANGED <<chunkerVars, clustererVars, overlapVars, pipelineVars, layoutVars, selectorVars, vectorizerVars>>

\* generate_json.py: generate_docexplore_json(...)
generate_docexplore_json ==
    /\ pc = "namer:named"
    /\ LET fails == \/ "clustered_embeddings.json" \notin files
                    \/ "cluster_names.json" \notin files
                    \/ \E i \in 1..Len(clustered_json) : no_cluster_field(clustered_json[i])
       IN  /\ docexplore_json' = IF fails THEN docexplore_json
                                 ELSE artifact(clustered_json, cluster_names_json)
           /\ files' = IF fails THEN files ELSE files \cup {"docexplore.json"}
           /\ exit_code' = IF fails THEN 1 ELSE 0
    /\ pc' = "namer:done"
    /\ UNCHANGED <<MAX_KEYWORDS, clustered_json, cluster_names_json, text_samples,
                   cluster_id, title>>
    /\ UNCHANGED <<chunkerVars, clustererVars, overlapVars, pipelineVars, layoutVars, selectorVars, vectorizerVars>>

\* one call name_cluster(text_samples, cluster_id)
name_cluster_call ==
    /\ pc = "namer:start"
    /\ clustered_json = <<>>
    /\ \E samples \in SampleLists, cid \in ClusterFields \ {NoCluster} :
         \E top \in top_phrases_choices(samples, MAX_KEYWORDS) :
            /\ text_samples' = samples
            /\ cluster_id' = cid
            /\ title' = name_cluster(samples, cid, MAX_KEYWORDS, top)
    /\ pc' = "namer:called"
    /\ UNCHANGED <<MAX_KEYWORDS, files, clustered_json, cluster_names_json,
                   docexplore_json, exit_code>>
    /\ UNCHANGED <<chunkerVars, clustererVars, overlapVars, pipelineVars, layoutVars, selectorVars, vectorizerVars>>

NextNamer ==
    \/ assign_cluster_names
    \/ generate_docexplore_json
    \/ name_cluster_call

SpecNamer == InitNamer /\ [][NextNamer]_vars

(***************************************************************************)
(* Claims about the topic namer and the aggregator (checked under          *)
(* SpecNamer).                                                             *)
(***************************************************************************)
\* C4: generate_json.py run on an empty clustered_embeddings.json exits with
\* an error and writes no artifact, and no artifact written has an empty
\* list of clusters.
C4_RefusesEmptyInput ==
    /\ (pc = "namer:done" /\ clustered_json = <<>>) =>
          (exit_code # 0 /\ "docexplore.json" \notin files)
    /\ "docexplore.json" \in files => docexplore_json.clusters # <<>>

\* C8: name_cluster returns "Topic {cluster_id}" when it is given no text or
\* no phrase can be extracted from its texts (all their words stop words).
C8_FallbackIsTopicLabel ==
    (pc = "namer:called"
       /\ (Len(text_samples) = 0 \/ feature_names(text_samples) = {})) =>
        title = TopicLabel(cluster_id)

\* the cluster ids of clustered_embeddings.json
ClusterIdsOf(data) == {data[i].cluster : i \in 1..Len(data)}

\* the phrases of the texts of cluster cid
OwnPhrases(data, cid) == feature_names(cluster_texts(data, cid))

\* C9: topic_naming.py never fails: it writes exactly one name for every
\* cluster id of its input; a cluster whose naming raised gets the fallback
\* label of its own id, and every other cluster gets a title made of phrases
\* of its own texts.
C9_NamingFailureIsolated ==
    pc = "namer:named" =>
        /\ exit_code = 0
        /\ "cluster_names.json" \in files
        /\ Len(cluster_names_json) = Cardinality(ClusterIdsOf(clustered_json))
        /\ \A cid \in ClusterIdsOf(clustered_json) :
              \E i \in 1..Len(cluster_names_json) :
                 /\ cluster_names_json[i][1] = str(cid)
                 /\ LET name == cluster_names_json[i][2]
                    IN  IF OwnPhrases(clustered_json, cid) = {}
                        THEN name = ClusterLabel(cid)
                        ELSE /\ name.kind = "title"
                             /\ name.phrases # <<>>
                             /\ \A j \in 1..Len(name.phrases) :
                                   name.phrases[j].words \in OwnPhrases(clustered_json, cid)

\* a run that named two clusters, one by the fallback after an error and the
\* other by a title
C9_Witness ==
    /\ pc = "namer:named"
    /\ \E i, j \in 1..Len(cluster_names_json) :
          /\ cluster_names_json[i][2].kind = "Cluster"
          /\ cluster_names_json[j][2].kind = "title"

\* the place in clustered_json where a cluster id is first met
FirstMet(cid) ==
    CHOOSE i \in 1..Len(clustered_json) :
        /\ clustered_json[i].cluster = cid
        /\ \A j \in 1..(i - 1) : clustered_json[j].cluster # cid

\* C12: in a written artifact the clusters are in the order their ids are
\* first met in the clustered list, and the items of every cluster are
\* records of the list in the order of the list (the id of a record is its
\* place in the list, counted from 0).
C12_ArtifactKeepsOrder ==
    (pc = "namer:done" /\ "docexplore.json" \in files) =>
        /\ \A c, d \in 1..Len(docexplore_json.clusters) :
              c < d => FirstMet(docexplore_json.clusters[c].id)
                          < FirstMet(docexplore_json.clusters[d].id)
        /\ \A c \in 1..Len(docexplore_json.clusters) :
              LET items == docexplore_json.clusters[c].items
              IN  /\ \A a \in 1..Len(items) : clustered_json[items[a].id + 1] = items[a]
                  /\ \A a, b \in 1..Len(items) : a < b => items[a].id < items[b].id

\* an artifact whose first cluster has the greater id and two items that are
\* not neighbours in the clustered list
C12_Witness ==
    /\ pc = "namer:done"
    /\ "docexplore.json" \in files
    /\ Len(docexplore_json.clusters) = 2
    /\ docexplore_json.clusters[1].id > docexplore_json.clusters[2].id
    /\ Len(docexplore_json.clusters[1].items) = 2
    /\ docexplore_json.clusters[1].items[2].id = docexplore_json.clusters[1].items[1].id + 2

(***************************************************************************)
(* SpecOverlap: compute_topic_overlap called on two topics of up to        *)
(* MaxWords distinct words, and on up to MaxItems items of three topics.   *)
(***************************************************************************)
\* two topics: the words 1..a against the words b..c
TwoTopicInputs(n) ==
    {<<Item(0, WordRange(1, a), 0), Item(1, WordRange(bc[1], bc[2]), 1)>> :
        a \in 0..n,
        bc \in {p \in (1..n) \X (0..n) : p[2] >= p[1] - 1 /\ (p[2] < p[1] => p[1] = 1)}}

\* the texts of the items of three topics: "Revenue growth",
\* "revenue, about growth", "the revenue"
OverlapTexts ==
    {<<Word("Content", 1), Word("content", 2)>>,
     <<Word("punct", 1), Word("longstop", 1), Word("content", 2)>>,
     <<Word("stop", 1), Word("content", 1)>>}

ThreeTopicInputs(n) ==
    UNION {{[i \in 1..m |-> Item(i - 1, f[i][1], f[i][2])] :
              f \in [1..m -> OverlapTexts \X {0, 1, 2}]} :
           m \in 0..n}

\* the topics of a call: three topics, three topics two of which have one
\* name, two topics
TopicDicts ==
    {<<<<0, "Revenue">>, <<1, "Growth">>, <<2, "Costs">>>>,
     <<<<2, "Revenue">>, <<0, "Growth">>, <<1, "Revenue">>>>,
     <<<<1, "Growth">>, <<0, "Revenue">>>>}

InitOverlap ==
    /\ pc = "overlap:start"
    /\ PipelineIdle
    /\ \/ /\ clustered_data \in TwoTopicInputs(MaxWords)
          /\ topics_dict = <<<<0, "Revenue">>, <<1, "Growth">>>>
       \/ /\ clustered_data \in ThreeTopicInputs(MaxItems)
          /\ topics_dict \in TopicDicts
    /\ overlaps = <<>>
    /\ ChunkerIdle
    /\ ClustererIdle
    /\ NamerIdle
    /\ LayoutIdle
    /\ SelectorIdle
    /\ VectorizerIdle

\* one call compute_topic_overlap(clustered_data, topics_dict)
compute_topic_overlap_call ==
    /\ pc = "overlap:start"
    /\ overlaps' = compute_topic_overlap(clustered_data, topics_dict)
    /\ pc' = "overlap:done"
    /\ UNCHANGED <<clustered_data, topics_dict>>
    /\ UNCHANGED <<chunkerVars, clustererVars, namerVars, pipelineVars, layoutVars, selectorVars, vectorizerVars>>

NextOverlap == compute_topic_overlap_call

SpecOverlap == InitOverlap /\ [][NextOverlap]_vars

(***************************************************************************)
(* Claims about compute_topic_overlap (checked under SpecOverlap).         *)
(***************************************************************************)
\* the distinct significant words of the topic at position i of topics_dict
SignificantWords(i) ==
    UNION {{lower(clustered_data[n].text[m]) : m \in 1..Len(clustered_data[n].text)} :
             n \in {n \in 1..Len(clustered_data) :
                      clustered_data[n].cluster = topics_dict[i][1]}}
      \cap ({Word("content", n) : n \in 1..MaxWords} \cup {Word("longstop", 1)})
Common(i, j) == Cardinality(SignificantWords(i) \cap SignificantWords(j))
Total(i, j) == Cardinality(SignificantWords(i) \cup SignificantWords(j))
TopicPairs == {p \in (1..Len(topics_dict)) \X (1..Len(topics_dict)) : p[1] < p[2]}
EdgesOf(p) == {e \in 1..Len(overlaps) : overlaps[e].i = p[1] /\ overlaps[e].j = p[2]}

\* what C10 says of the pairs as claimed and as amended: every edge is the
\* edge of a pair i < j of topics and carries their names, no pair has two
\* edges, a pair without a common word has none, and a pair sharing 1 of 5
\* words has one, of score 0.2
C10_PairsOnce ==
    /\ \A e \in 1..Len(overlaps) :
          /\ <<overlaps[e].i, overlaps[e].j>> \in TopicPairs
          /\ overlaps[e].name_i = topics_dict[overlaps[e].i][2]
          /\ overlaps[e].name_j = topics_dict[overlaps[e].j][2]
    /\ \A p \in TopicPairs :
          /\ Cardinality(EdgesOf(p)) <= 1
          /\ Common(p[1], p[2]) = 0 => EdgesOf(p) = {}
          /\ (Common(p[1], p[2]) = 1 /\ Total(p[1], p[2]) = 5) =>
                \E e \in EdgesOf(p) : overlaps[e].score = 20

\* C10 as claimed: every unordered pair of topics is reported at most once;
\* the score of every reported edge is in [0,1] and strictly above 0.1
\* (scores are in hundredths); a pair without a common word is not reported;
\* a pair sharing 1 of 5 words is reported with 0.2.
C10_ScoresAboveThreshold ==
    pc = "overlap:done" =>
        /\ C10_PairsOnce
        /\ \A e \in 1..Len(overlaps) :
              overlaps[e].score > 10 /\ overlaps[e].score <= 100

\* C10 as amended: as claimed, but it is the Jaccard ratio of a reported
\* edge that is strictly above 0.1; the score, the ratio rounded to two
\* decimals, is in [0.1, 1].
C10_RatiosAboveThreshold ==
    pc = "overlap:done" =>
        /\ C10_PairsOnce
        /\ \A e \in 1..Len(overlaps) :
              /\ 10 * Common(overlaps[e].i, overlaps[e].j)
                    > Total(overlaps[e].i, overlaps[e].j)
              /\ overlaps[e].score >= 10 /\ overlaps[e].score <= 100

\* a call that reported the pair sharing 3 of 29 words with the score 0.1
C10_Witness ==
    /\ pc = "overlap:done"
    /\ \E e \in 1..Len(overlaps) :
          /\ overlaps[e].score = 10
          /\ Common(overlaps[e].i, overlaps[e].j) = 3
          /\ Total(overlaps[e].i, overlaps[e].j) = 29

(***************************************************************************)
(* SpecPipeline: main.py run once on a reports folder, or a session of     *)
(* app.py with up to MaxUploads uploads.  One action per script of the     *)
(* pipeline and per page of app.py.                                        *)
(***************************************************************************)
\* the windows of a document: blank, "x", "revenue"
ChunkTexts == {<<>>, <<Word("char", 1)>>, <<Word("content", 1)>>}
\* the documents of up to n windows: an unreadable or empty one has none
Documents(n) == TextsUpTo(ChunkTexts, n)
\* the reports folders of main.py: up to k documents of up to n windows in
\* all
ReportFolders(n, k) ==
    {<<>>} \cup
    UNION {{CutAt(d, cuts) : cuts \in CutsOf(Len(d), k - 1)} : d \in Documents(n)}

OutputsCleared ==
    /\ files = {}
    /\ all_texts = <<>>
    /\ chunks = <<>>
    /\ embeddings_json = <<>>
    /\ clustered_json = <<>>
    /\ cluster_names_json = <<>>
    /\ docexplore_json = NoArtifact
    /\ artifact_run = 0

InitPipeline ==
    /\ \/ /\ driver = "main.py"
          /\ pc = "backend/data_extraction.py"
          /\ reports \in ReportFolders(MaxDocChunks, MaxReports)
          /\ runs = 1
       \/ /\ driver = "app.py"
          /\ pc = "app:upload_page"
          /\ reports = <<>>
          /\ runs = 0
    /\ OutputsCleared
    /\ results = <<>>
    /\ doc_uploaded = FALSE
    /\ page_data = NoArtifact
    /\ MAX_KEYWORDS \in KeywordCaps
    /\ exit_code = 0
    /\ text_samples = <<>>
    /\ cluster_id = 0
    /\ title = TopicLabel(0)
    /\ ChunkerIdle
    /\ ClustererIdle
    /\ OverlapIdle
    /\ LayoutIdle
    /\ SelectorIdle
    /\ VectorizerIdle

\* what a script leaves of the driver's state: its result and the next step
Returned(script, returncode, output) ==
    /\ results' = Append(results, Result(script, returncode, output))
    /\ exit_code' = returncode
    /\ pc' = after(driver, script, returncode)
    /\ UNCHANGED <<driver, reports, doc_uploaded, page_data, runs, MAX_KEYWORDS,
                   text_samples, cluster_id, title>>
    /\ UNCHANGED <<chunkerVars, clustererVars, overlapVars, layoutVars, selectorVars, vectorizerVars>>

\* app.py lines 153-170: a document is uploaded, the folders are cleared and
\* the run starts
upload ==
    /\ driver = "app.py"
    /\ pc \in {"app:upload_page", "app:stopped"}
    /\ ~doc_uploaded
    /\ runs < MaxUploads
    /\ \E doc \in Documents(MaxDocChunks) : reports' = <<doc>>
    /\ files' = {}
    /\ all_texts' = <<>>
    /\ chunks' = <<>>
    /\ embeddings_json' = <<>>
    /\ clustered_json' = <<>>
    /\ cluster_names_json' = <<>>
    /\ docexplore_json' = NoArtifact
    /\ artifact_run' = 0
    /\ results' = <<>>
    /\ runs' = runs + 1
    /\ pc' = "backend/data_extraction.py"
    /\ UNCHANGED <<driver, doc_uploaded, page_data, MAX_KEYWORDS, exit_code,
                   text_samples, cluster_id, title>>
    /\ UNCHANGED <<chunkerVars, clustererVars, overlapVars, layoutVars, selectorVars, vectorizerVars>>

\* data_extraction.py
run_data_extraction ==
    /\ pc = "backend/data_extraction.py"
    /\ all_texts' = reports
    /\ files' = files \cup {"all_texts.txt"}
    /\ Returned("backend/data_extraction.py", 0, "all_texts.txt")
    /\ UNCHANGED <<chunks, embeddings_json, clustered_json, cluster_names_json,
                   docexplore_json, artifact_run>>

\* text_chunking.py
run_text_chunking ==
    /\ pc = "backend/text_chunking.py"
    /\ IF "all_texts.txt" \in files
       THEN /\ chunks' = all_chunks_of(all_texts)
            /\ files' = files \cup {"chunks.txt"}
            /\ Returned("backend/text_chunking.py", 0, "chunks.txt")
       ELSE /\ UNCHANGED <<chunks, files>>
            /\ Returned("backend/text_chunking.py", 1, "")
    /\ UNCHANGED <<all_texts, embeddings_json, clustered_json, cluster_names_json,
                   docexplore_json, artifact_run>>

\* embedding_generation.py
run_embedding_generation ==
    /\ pc = "backend/embedding_generation.py"
    /\ IF "chunks.txt" \in files /\ ~empty_vocabulary(nonblank_chunks(chunks))
       THEN /\ embeddings_json' = generate_embeddings(nonblank_chunks(chunks))
            /\ files' = files \cup {"embeddings.json"}
            /\ Returned("backend/embedding_generation.py", 0, "embeddings.json")
       ELSE /\ UNCHANGED <<embeddings_json, files>>
            /\ Returned("backend/embedding_generation.py", 1, "")
    /\ UNCHANGED <<all_texts, chunks, clustered_json, cluster_names_json,
                   docexplore_json, artifact_run>>

\* clustering.py lines 103-114
run_clustering ==
    /\ pc = "backend/clustering.py"
    /\ IF "embeddings.json" \in files
       THEN LET n == Len(vectors_of(embeddings_json))
            IN  \E score \in CallScoreChoices(n, NoneArg) :
                \E labels \in LabelChoices(n, final_clusters(n, NoneArg, score)) :
                   LET call == perform_clustering(embeddings_json, NoneArg, score, labels)
                       found == IF call.raised # "" THEN <<>> ELSE call.clusters
                   IN  /\ clustered_json' = save_clustered_data(embeddings_json, found)
                       /\ files' = files \cup {"clustered_embeddings.json"}
                       /\ Returned("backend/clustering.py", 0, "clustered_embeddings.json")
       ELSE /\ UNCHANGED <<clustered_json, files>>
            /\ Returned("backend/clustering.py", 1, "")
    /\ UNCHANGED <<all_texts, chunks, embeddings_json, cluster_names_json,
                   docexplore_json, artifact_run>>

\* topic_naming.py
run_topic_naming ==
    /\ pc = "backend/topic_naming.py"
    /\ IF "clustered_embeddings.json" \in files
       THEN \E names \in name_all(clustered_json, cluster_keys(clustered_json),
                                  MAX_KEYWORDS) :
               IF any_raised(names)
               THEN /\ UNCHANGED <<cluster_names_json, files>>
                    /\ Returned("backend/topic_naming.py", 1, "")
               ELSE /\ cluster_names_json' = names
                    /\ files' = files \cup {"cluster_names.json"}
                    /\ Returned("backend/topic_naming.py", 0, "cluster_names.json")
       ELSE /\ UNCHANGED <<cluster_names_json, files>>
            /\ Returned("backend/topic_naming.py", 1, "")
    /\ UNCHANGED <<all_texts, chunks, embeddings_json, clustered_json,
                   docexplore_json, artifact_run>>

\* similarity.py: prints the similarity of two fixed vectors
run_similarity ==
    /\ pc = "backend/similarity.py"
    /\ Returned("backend/similarity.py", 0, "")
    /\ UNCHANGED <<files, all_texts, chunks, embeddings_json, clustered_json,
                   cluster_names_json, docexplore_json, artifact_run>>

\* generate_json.py
run_generate_json ==
    /\ pc = "backend/generate_json.py"
    /\ IF /\ "clustered_embeddings.json" \in files
          /\ "cluster_names.json" \in files
          /\ ~\E i \in 1..Len(clustered_json) : no_cluster_field(clustered_json[i])
       THEN /\ docexplore_json' = artifact(clustered_json, cluster_names_json)
            /\ artifact_run' = runs
            /\ files' = files \cup {"docexplore.json"}
            /\ Returned("backend/generate_json.py", 0, "docexplore.json")
       ELSE /\ UNCHANGED <<docexplore_json, artifact_run, files>>
            /\ Returned("backend/generate_json.py", 1, "")
    /\ UNCHANGED <<all_texts, chunks, embeddings_json, clustered_json,
                   cluster_names_json>>

\* app.py lines 171-177: the artifact is looked for, the session is marked
verify_artifact ==
    /\ pc = "app:verify"
    /\ IF "docexplore.json" \in files
       THEN doc_uploaded' = TRUE /\ pc' = "app:analysis_page"
       ELSE doc_uploaded' = doc_uploaded /\ pc' = "app:stopped"
    /\ UNCHANGED <<driver, reports, all_texts, chunks, embeddings_json, results,
                   page_data, runs, artifact_run>>
    /\ UNCHANGED <<chunkerVars, clustererVars, namerVars, overlapVars, layoutVars, selectorVars, vectorizerVars>>

\* app.py lines 178-190: the analysis page loads the artifact
analysis_page ==
    /\ pc = "app:analysis_page"
    /\ doc_uploaded
    /\ IF "docexplore.json" \notin files
       THEN page_data' = page_data /\ pc' = "app:load_error"
       ELSE IF docexplore_json.clusters = <<>>
       THEN page_data' = page_data /\ pc' = "app:no_clusters"
       ELSE page_data' = docexplore_json /\ pc' = "app:showing"
    /\ UNCHANGED <<driver, reports, all_texts, chunks, embeddings_json, results,
                   doc_uploaded, runs, artifact_run>>
    /\ UNCHANGED <<chunkerVars, clustererVars, namerVars, overlapVars, layoutVars, selectorVars, vectorizerVars>>

\* app.py lines 413-415: Close Document Session
close_session ==
    /\ pc = "app:showing"
    /\ doc_uploaded' = FALSE
    /\ page_data' = NoArtifact
    /\ pc' = "app:upload_page"
    /\ UNCHANGED <<driver, reports, all_texts, chunks, embeddings_json, results,
                   runs, artifact_run>>
    /\ UNCHANGED <<chunkerVars, clustererVars, namerVars, overlapVars, layoutVars, selectorVars, vectorizerVars>>

NextPipeline ==
    \/ upload
    \/ run_data_extraction
    \/ run_text_chunking
    \/ run_embedding_generation
    \/ run_clustering
    \/ run_topic_naming
    \/ run_similarity
    \/ run_generate_json
    \/ verify_artifact
    \/ analysis_page
    \/ close_session

SpecPipeline == InitPipeline /\ [][NextPipeline]_vars

(***************************************************************************)
(* Claims about whole runs (checked under SpecPipeline).                   *)
(***************************************************************************)
\* the chunk ids of the vectorizer output
ChunkIds == {embeddings_json[i].id : i \in 1..Len(embeddings_json)}
\* the places <<cluster, item>> of the artifact
ArtifactPlaces ==
    {p \in (1..Len(docexplore_json.clusters)) \X (1..Len(embeddings_json)) :
        p[2] <= Len(docexplore_json.clusters[p[1]].items)}
PlacesOf(id) ==
    {p \in ArtifactPlaces : docexplore_json.clusters[p[1]].items[p[2]].id = id}

\* C1: when a run has written the artifact, every chunk id of the vectorizer
\* output is at exactly one place of exactly one cluster's items, every item
\* of the artifact is such a chunk with the cluster id of its cluster, and
\* no two clusters have one id.
C1_ArtifactPartitionsChunks ==
    "docexplore.json" \in files =>
        /\ \A id \in ChunkIds : Cardinality(PlacesOf(id)) = 1
        /\ \A p \in ArtifactPlaces :
              /\ docexplore_json.clusters[p[1]].items[p[2]].id \in ChunkIds
              /\ docexplore_json.clusters[p[1]].items[p[2]].cluster
                    = docexplore_json.clusters[p[1]].id
        /\ \A c \in 1..Len(docexplore_json.clusters) :
              /\ Len(docexplore_json.clusters[c].items) <= Len(embeddings_json)
              /\ \A d \in 1..Len(docexplore_json.clusters) :
                    docexplore_json.clusters[c].id = docexplore_json.clusters[d].id
                       => c = d

\* a run wrote an artifact of two clusters, one of them of two chunks
C1_Witness ==
    /\ "docexplore.json" \in files
    /\ Len(docexplore_json.clusters) = 2
    /\ \E c \in 1..2 : Len(docexplore_json.clusters[c].items) = 2
    /\ Len(embeddings_json) = 3

\* did the script of results[i] get none of the chunks, vectors or clusters
\* it works on
InputAbsent(i) ==
    \/ /\ results[i].script = "backend/embedding_generation.py"
       /\ nonblank_chunks(chunks) = <<>>
    \/ /\ results[i].script = "backend/clustering.py"
       /\ vectors_of(embeddings_json) = <<>>
    \/ /\ results[i].script \in {"backend/topic_naming.py", "backend/generate_json.py"}
       /\ \A n \in 1..Len(clustered_json) : no_cluster_field(clustered_json[n])

\* C5: the script that is reached without a chunk, a vector or a cluster to
\* work on exits with an error and no later script writes a file; the run
\* then ends as a failure; and the analysis page is only reached when the
\* artifact in outputs is the one of the latest run and holds every chunk.
C5_InputAbsentIsTerminal ==
    /\ \A i \in 1..Len(results) :
          InputAbsent(i) =>
             /\ results[i].returncode # 0
             /\ results[i].output = ""
             /\ \A j \in (i + 1)..Len(results) : results[j].output = ""
             /\ pc \in {"main:error", "app:stopped"}
    /\ doc_uploaded =>
          /\ "docexplore.json" \in files
          /\ artifact_run = runs
          /\ \A id \in ChunkIds : PlacesOf(id) # {}
    /\ page_data # NoArtifact => page_data = docexplore_json

\* C13: the scripts that have run in a run are the first scripts of the
\* driver's list, in order; every script but the last one run exited with
\* status 0; the driver is about to start a script only when it is the next
\* of the list and the one before it exited with status 0; and after a
\* script failed the driver is stopped, with no script to start.
C13_StagesInOrderAfterSuccess ==
    /\ Len(results) <= Len(pipeline_scripts(driver))
    /\ \A i \in 1..Len(results) :
          /\ results[i].script = pipeline_scripts(driver)[i]
          /\ i < Len(results) => results[i].returncode = 0
    /\ pc \in Elements(pipeline_scripts(driver)) =>
          /\ pc = pipeline_scripts(driver)[Len(results) + 1]
          /\ \A i \in 1..Len(results) : results[i].returncode = 0
    /\ (\E i \in 1..Len(results) : results[i].returncode # 0) =>
          pc \in {"main:error", "app:stopped"}

\* a run stopped by the failure of its third script
C13_Witness ==
    \/ /\ Len(results) = 3
       /\ results[3].returncode # 0
       /\ pc = "app:stopped"
    \/ /\ Len(results) = 3
       /\ results[3].returncode # 0
       /\ pc = "main:error"

(***************************************************************************)
(* SpecLayout: compute_topic_positions called on up to MaxItems items,     *)
(* with and without vectors, of the topics of TopicDicts.                  *)
(***************************************************************************)
LayoutInputs(n) ==
    UNION {{[i \in 1..m |-> [id |-> i - 1, text |-> <<>>, emb |-> f[i][1], cluster |-> f[i][2]]] :
              f \in [1..m -> EmbeddingKinds \X {NoCluster, 0, 1, 2}]} :
           m \in 0..n}

InitLayout ==
    /\ pc = "layout:start"
    /\ clustered_data \in LayoutInputs(MaxItems)
    /\ topics_dict \in TopicDicts
    /\ overlaps = <<>>
    /\ ChunkerIdle
    /\ ClustererIdle
    /\ NamerIdle
    /\ PipelineIdle
    /\ LayoutIdle
    /\ SelectorIdle
    /\ VectorizerIdle

\* one call compute_topic_positions(clustered_data, topics_dict)
compute_topic_positions_call ==
    /\ pc = "layout:start"
    /\ LET call == compute_topic_positions(clustered_data, topics_dict)
       IN  /\ positions' = call.positions
           /\ topic_names' = call.topic_names
           /\ returned_none' = call.none
    /\ pc' = "layout:done"
    /\ UNCHANGED <<chunkerVars, clustererVars, namerVars, overlapVars, pipelineVars, selectorVars, vectorizerVars>>

NextLayout == compute_topic_positions_call

SpecLayout == InitLayout /\ [][NextLayout]_vars

(***************************************************************************)
(* Claims about compute_topic_positions (checked under SpecLayout).        *)
(***************************************************************************)
\* the places in topics_dict of the topics with a member that has a
\* non-empty vector
TopicsWithVectors ==
    {t \in 1..Len(topics_dict) :
        \E i \in 1..Len(clustered_data) :
           /\ clustered_data[i].cluster = topics_dict[t][1]
           /\ clustered_data[i].emb = "vector"}
\* the place in topics_dict of the topic a row of positions places
PlaceOfRow(r) == CHOOSE t \in 1..Len(topics_dict) : topics_dict[t][1] = positions[r].of

\* C11: the call never raises; it returns (None, None) exactly when no topic
\* has a member with a non-empty vector; otherwise positions has exactly one
\* row for every topic that has one and no other row, the rows are in the
\* order of topics_dict, and topic_names[r] is the name of the topic of
\* row r.
C11_OnePointPerTopicWithVectors ==
    pc = "layout:done" =>
        /\ returned_none <=> TopicsWithVectors = {}
        /\ returned_none => positions = <<>> /\ topic_names = <<>>
        /\ Len(positions) = Cardinality(TopicsWithVectors)
        /\ Len(topic_names) = Len(positions)
        /\ \A r \in 1..Len(positions) :
              /\ \E t \in TopicsWithVectors : topics_dict[t][1] = positions[r].of
              /\ topic_names[r] = topics_dict[PlaceOfRow(r)][2]
              /\ \A q \in 1..(r - 1) : PlaceOfRow(q) < PlaceOfRow(r)

\* a call on three topics of which one has no member vector: two rows
C11_Witness ==
    /\ pc = "layout:done"
    /\ Len(topics_dict) = 3
    /\ Len(positions) = 2
    /\ \E i \in 1..Len(clustered_data) :
          /\ clustered_data[i].emb # "vector"
          /\ \E t \in 1..3 : t \notin TopicsWithVectors /\ topics_dict[t][1] = clustered_data[i].cluster

(***************************************************************************)
(* SpecSelector: determine_optimal_clusters called on a bounded set of     *)
(* chunk counts, configured minima and maxima, and silhouette scores.      *)
(***************************************************************************)
DocSizes == (0..MaxSmallDocs) \cup {10 * j : j \in 0..MaxTens}
ConfiguredMins == {-1, 1, 2, 3, 5}
ConfiguredMaxs == {1, 2, 4, 10, 31, 50}

\* the scores of a call: silhouette_score raises for fewer than 2 labels; the
\* first MaxMarked candidates get any score or none, the others one common
\* outcome
SelectorScores(cands) ==
    {[k \in Elements(cands) |->
        LET i == CHOOSE i \in 1..Len(cands) : cands[i] = k
        IN  IF k < 2 THEN NoScore
            ELSE IF i <= MaxMarked THEN f[i] ELSE d] :
       f \in [1..MaxMarked -> Silhouettes \cup {NoScore}], d \in {0, NoScore}}

InitSelector ==
    /\ pc = "selector:start"
    /\ doc_size \in DocSizes
    /\ min_clusters_arg \in ConfiguredMins
    /\ max_clusters_arg \in ConfiguredMaxs
    /\ silhouette \in SelectorScores(cluster_range(doc_size, min_clusters_arg, max_clusters_arg))
    /\ candidate_list = <<>>
    /\ score_pairs = <<>>
    /\ best_n_clusters = 0
    /\ ChunkerIdle
    /\ ClustererIdle
    /\ NamerIdle
    /\ OverlapIdle
    /\ PipelineIdle
    /\ LayoutIdle
    /\ VectorizerIdle

\* one call determine_optimal_clusters(X, min_clusters, max_clusters)
determine_optimal_clusters_call ==
    /\ pc = "selector:start"
    /\ candidate_list' = cluster_range(doc_size, min_clusters_arg, max_clusters_arg)
    /\ score_pairs' = LET ks == silhouette_scores(doc_size, min_clusters_arg,
                                             max_clusters_arg, silhouette)
                      IN  [i \in 1..Len(ks) |-> <<ks[i], silhouette[ks[i]]>>]
    /\ best_n_clusters' =
          determine_optimal_clusters(doc_size, min_clusters_arg, max_clusters_arg, silhouette)
    /\ pc' = "selector:done"
    /\ UNCHANGED <<doc_size, min_clusters_arg, max_clusters_arg, silhouette>>
    /\ UNCHANGED <<chunkerVars, clustererVars, namerVars, overlapVars, pipelineVars, layoutVars, vectorizerVars>>

NextSelector == determine_optimal_clusters_call

SpecSelector == InitSelector /\ [][NextSelector]_vars

(***************************************************************************)
(* Claims about determine_optimal_clusters (checked under SpecSelector).   *)
(***************************************************************************)
\* the bounds as the specification gives them
MinK == Min(min_clusters_arg, Max(2, doc_size \div 20))
MaxK == Min(max_clusters_arg, Max(MinK + 2, doc_size \div 5))

\* what C15 says of the candidates: they start at
\* min_k = min(configured_min, max(2, n/20)) and lie in [min_k, max_k],
\* max_k = min(configured_max, max(min_k+2, n/5))
C15_CandidateBounds ==
    /\ \A i \in 1..Len(candidate_list) :
          MinK <= candidate_list[i] /\ candidate_list[i] <= MaxK
    /\ candidate_list # <<>> => candidate_list[1] = MinK

\* C15 as claimed: the candidates keep the bounds min_k and max_k, and
\* every value returned is in [min_k, max_k].
C15_ReturnsWithinBounds ==
    pc = "selector:done" =>
        /\ C15_CandidateBounds
        /\ MinK <= best_n_clusters
        /\ best_n_clusters <= MaxK

\* C15 as amended: the candidates keep the bounds; the value returned is in
\* [min_k, max_k] whenever the configured maximum is not below min_k, and is
\* min_k, above max_k, when it is.
C15_ReturnsWithinBoundsUnlessInverted ==
    pc = "selector:done" =>
        /\ C15_CandidateBounds
        /\ max_clusters_arg >= MinK =>
              (MinK <= best_n_clusters /\ best_n_clusters <= MaxK)
        /\ max_clusters_arg < MinK =>
              (best_n_clusters = MinK /\ MaxK < MinK)

\* a call on 60 chunks with the configured minimum 5: min_k is 3, and the
\* second candidate, 4, is returned
C15_Witness ==
    /\ pc = "selector:done"
    /\ doc_size = 60
    /\ min_clusters_arg = 5
    /\ MinK = 3
    /\ best_n_clusters = 4

\* C16: when [min_k, max_k] holds more than about 10 cluster counts (more
\* than 15 here: the tolerance is the largest number of candidates the
\* subsampling itself can give), at most that many candidates are evaluated,
\* they are evenly spaced, and min_k and max_k are among them.
C16_LongRangeIsSubsampled ==
    (pc = "selector:done" /\ MaxK - MinK + 1 > 15) =>
        /\ Len(candidate_list) <= 15
        /\ \A i \in 2..(Len(candidate_list) - 1) :
              candidate_list[i + 1] - candidate_list[i]
                 = candidate_list[i] - candidate_list[i - 1]
        /\ MinK \in Elements(candidate_list)
        /\ MaxK \in Elements(candidate_list)

\* the candidates that could be given a valid score: fewer than n, and
\* silhouette_score did not raise
ValidCandidates ==
    {i \in 1..Len(candidate_list) :
        /\ Len(candidate_list) >= 2
        /\ candidate_list[i] < doc_size
        /\ silhouette[candidate_list[i]] # NoScore}

\* C17: only candidates k < n are scored; the value returned is the
\* candidate of the highest valid score, the first one in the candidate list
\* when several have it; and it is min_k when no candidate has a valid score.
C17_ReturnsFirstBestScored ==
    pc = "selector:done" =>
        /\ \A j \in 1..Len(score_pairs) :
              /\ score_pairs[j][1] < doc_size
              /\ score_pairs[j][2] # NoScore
              /\ \E i \in ValidCandidates : candidate_list[i] = score_pairs[j][1]
        /\ Len(score_pairs) = Cardinality(ValidCandidates)
        /\ ValidCandidates = {} => best_n_clusters = MinK
        /\ ValidCandidates # {} =>
              \E i \in ValidCandidates :
                 /\ best_n_clusters = candidate_list[i]
                 /\ \A j \in ValidCandidates :
                       /\ silhouette[candidate_list[j]] <= silhouette[candidate_list[i]]
                       /\ j < i => silhouette[candidate_list[j]]
                                      < silhouette[candidate_list[i]]

\* a call in which two candidates share the highest score, a third has a
\* lower one, and the first of the two is returned
C17_Witness ==
    /\ pc = "selector:done"
    /\ \E i, j, k \in ValidCandidates :
          /\ i < j
          /\ silhouette[candidate_list[i]] = silhouette[candidate_list[j]]
          /\ silhouette[candidate_list[k]] < silhouette[candidate_list[i]]
          /\ best_n_clusters = candidate_list[i]

\* what C18 says in general: when fewer than two candidates are there, or
\* fewer than two are left below n, min_k is returned
C18_ShortRangeGivesMinK ==
    /\ Len(candidate_list) < 2 => best_n_clusters = MinK
    /\ Cardinality({i \in 1..Len(candidate_list) : candidate_list[i] < doc_size}) < 2
          => best_n_clusters = MinK

\* C18 as claimed: with exactly 2 chunks the call returns 2 for every
\* configured minimum and maximum, and min_k whenever fewer than two
\* candidates remain.
C18_TwoChunksGiveTwo ==
    pc = "selector:done" =>
        /\ doc_size = 2 => best_n_clusters = 2
        /\ C18_ShortRangeGivesMinK

\* C18 as amended: with exactly 2 chunks the call returns
\* min(configured minimum, 2), which is 2 for every configured minimum of 2
\* or more and the configured minimum below that.
C18_TwoChunksGiveMinOfTwo ==
    pc = "selector:done" =>
        /\ doc_size = 2 => best_n_clusters = Min(min_clusters_arg, 2)
        /\ (doc_size = 2 /\ min_clusters_arg >= 2) => best_n_clusters = 2
        /\ C18_ShortRangeGivesMinK

\* a call on 2 chunks with the configured minimum 5 and two candidates, both
\* skipped: 2 is returned
C18_Witness ==
    /\ pc = "selector:done"
    /\ doc_size = 2
    /\ min_clusters_arg = 5
    /\ Len(candidate_list) = 2
    /\ score_pairs = <<>>
    /\ best_n_clusters = 2

(***************************************************************************)
(* SpecVectorizer: any sequence of generate_embeddings and get_embedding   *)
(* calls in one process, on bounded chunk lists and texts.                 *)
(***************************************************************************)
FeatureCaps == {1, 2}
VecTexts ==
    {<<Word("char", 1)>>,
     <<Word("content", 2), Word("content", 1)>>,
     <<Word("content", 2), Word("content", 2), Word("content", 3)>>}
RunChunkLists(n) == TextsUpTo(VecTexts, n)

InitVectorizer ==
    /\ pc = "vectorizer:start"
    /\ MAX_FEATURES \in FeatureCaps
    /\ vectorizer_globals = NoGlobals
    /\ globals_before = NoGlobals
    /\ run_chunks = <<>>
    /\ embeddings_out = <<>>
    /\ embedding_raised = ""
    /\ ChunkerIdle
    /\ ClustererIdle
    /\ NamerIdle
    /\ OverlapIdle
    /\ PipelineIdle
    /\ LayoutIdle
    /\ SelectorIdle

\* one call generate_embeddings(chunks_file, output_file)
generate_embeddings_call ==
    \E cs \in RunChunkLists(MaxRunChunks) :
        LET r == generate_embeddings_run(vectorizer_globals, cs, MAX_FEATURES)
        IN  /\ globals_before' = vectorizer_globals
            /\ vectorizer_globals' = r.g
            /\ run_chunks' = cs
            /\ embeddings_out' = r.out
            /\ embedding_raised' = r.raised
            /\ pc' = "vectorizer:generate_embeddings"
            /\ UNCHANGED MAX_FEATURES
            /\ UNCHANGED <<chunkerVars, clustererVars, namerVars, overlapVars, pipelineVars, layoutVars, selectorVars>>

\* one call get_embedding(text)
get_embedding_call ==
    \E text \in VecTexts :
        LET r == get_embedding(vectorizer_globals, text, MAX_FEATURES)
        IN  /\ globals_before' = vectorizer_globals
            /\ vectorizer_globals' = r.g
            /\ run_chunks' = <<text>>
            /\ embeddings_out' = IF r.raised = "" THEN <<r.vector>> ELSE <<>>
            /\ embedding_raised' = r.raised
            /\ pc' = "vectorizer:get_embedding"
            /\ UNCHANGED MAX_FEATURES
            /\ UNCHANGED <<chunkerVars, clustererVars, namerVars, overlapVars, pipelineVars, layoutVars, selectorVars>>

NextVectorizer == generate_embeddings_call \/ get_embedding_call

SpecVectorizer == InitVectorizer /\ [][NextVectorizer]_vars

\* C19: whatever calls came before, a generate_embeddings run emits what a
\* run on the same chunks emits in a fresh process, one vector per chunk,
\* every vector of the length of the vocabulary fitted on those chunks.
C19_RunDependsOnOwnChunks ==
    pc = "vectorizer:generate_embeddings" =>
        LET fresh == generate_embeddings_run(NoGlobals, run_chunks, MAX_FEATURES)
            own == kept_terms(run_chunks, MAX_FEATURES)
        IN  /\ embeddings_out = fresh.out
            /\ embedding_raised = fresh.raised
            /\ embedding_raised = "" => Len(embeddings_out) = Len(run_chunks)
            /\ \A i \in 1..Len(embeddings_out) :
                  Len(embeddings_out[i]) = Cardinality(own)
            /\ embedding_raised = "" =>
                  \A i \in 1..Len(vectorizer_globals.vocabulary) :
                      vectorizer_globals.vocabulary[i] \in own

\* a run on two chunks after an earlier call fitted another vocabulary
C19_Witness ==
    /\ pc = "vectorizer:generate_embeddings"
    /\ globals_before.fit
    /\ globals_before.fitted = "true"
    /\ globals_before.vocabulary # vectorizer_globals.vocabulary
    /\ embedding_raised = ""
    /\ Len(embeddings_out) = 2
    /\ embeddings_out[1] # embeddings_out[2]

(***************************************************************************)
(* Claims about what clustering.py saves after perform_clustering (checked *)
(* under SpecClusterer).                                                   *)
(***************************************************************************)
\* clustering.py lines 108-113: the labels handed to save_clustered_data,
\* none when perform_clustering raised ValueError
labels_to_save == IF raised = "" THEN clusters ELSE <<>>

\* clustering.py line 70: the place in vectors of the vector of record i
vector_index(data, i) == Cardinality({j \in 1..i : has_embedding(data[j])})

\* C20: the cluster id saved onto a record is the label computed for that
\* record's own vector, a record without a usable embedding takes no label
\* from another record, and when labels were computed every record is saved
\* with a cluster field.
C20_LabelsStayWithTheirRecords ==
    pc = "clusterer:done" =>
        LET saved == save_clustered_data(embeddings_data, labels_to_save)
        IN  /\ \A i \in 1..Len(saved) :
                  saved[i].cluster # NoCluster =>
                      /\ has_embedding(embeddings_data[i])
                      /\ saved[i].cluster = labels_to_save[vector_index(embeddings_data, i)]
            /\ raised = "" => \A i \in 1..Len(saved) : saved[i].cluster # NoCluster

====
